---- MODULE Spec2Model ----
(***************************************************************************)
(* Model of the Serenity Python SDK demo workflows: the option valuation   *)
(* notebooks (dictionary of option valuations -> OptionValuationRequest -> *)
(* remote pricer -> results table) and the asset master / portfolio        *)
(* construction used by the risk and valuation notebooks.                  *)
(*                                                                         *)
(* The SDK package itself (serenity_sdk) and the remote service are not    *)
(* part of the sources; they are modelled from the descriptions given in   *)
(* the notebooks and in the specification, and are marked as such in the   *)
(* model map.                                                              *)
(***************************************************************************)
EXTENDS Integers, Sequences, FiniteSets, TLC

\* Python's None / an absent optional field; a present value x is <<x>>
None == <<>>

Some(x) == <<x>>

the(o) == o[1]

-----------------------------------------------------------------------------
(* Bounds *)

\* wall-clock ticks the session may last
MaxTime == 2
\* number of bump sizes in bumps_in_perc / expiries in expiry_times
NumBumps == 2
\* number of asset summaries the asset catalog may hold
MaxAssets == 3
\* number of symbols in a portfolio_raw
MaxPositions == 2

\* number of make invocations in a session
MaxMakeRuns == 3
\* number of times the user presses the widget's connect button
MaxClicks == 2
\* number of compute_portfolio_value calls in a session
MaxValuations == 3
\* number of portfolios built in a valuation session
MaxPortfolios == 2

\* num_calls of the historical valuation loop
num_calls == 2

-----------------------------------------------------------------------------
(* Generic helpers on Python dicts, modelled as insertion-ordered          *)
(* sequences of [key, val] items with pairwise distinct keys.              *)

Range(s) == {s[i] : i \in DOMAIN s}

keys(d) == [i \in DOMAIN d |-> d[i].key]

values(d) == [i \in DOMAIN d |-> d[i].val]

HasKey(d, k) == \E i \in DOMAIN d : d[i].key = k

Get(d, k) == d[CHOOSE i \in DOMAIN d : d[i].key = k].val

\* d[k] = v : overwrite in place when the key exists, append otherwise
SetItem(d, k, v) ==
    IF HasKey(d, k)
      THEN [i \in DOMAIN d |-> IF d[i].key = k THEN [key |-> k, val |-> v] ELSE d[i]]
      ELSE Append(d, [key |-> k, val |-> v])

Max(a, b) == IF a >= b THEN a ELSE b

Perms(n) == {p \in [1..n -> 1..n] : \A i, j \in 1..n : p[i] = p[j] => i = j}

-----------------------------------------------------------------------------
(* Data: option valuations and the reference data they are built from *)

\* qty used for the demo valuations
demo0_qty == 10

\* the pre-defined option instruments the OptionChooser offers
option_infos ==
    << [asset_id |-> "opt-A", underlier_asset_id |-> "BTC", strike_price |-> 10,
        expiry_datetime |-> 4, option_type |-> "CALL",
        option_style |-> "EUROPEAN", contract_size |-> 1],
       [asset_id |-> "opt-B", underlier_asset_id |-> "ETH", strike_price |-> 20,
        expiry_datetime |-> 3, option_type |-> "PUT",
        option_style |-> "EUROPEAN", contract_size |-> 2] >>

\* market data the pricer may observe at one instant
MarketStates == { [spot |-> 10, iv |-> 20], [spot |-> 20, iv |-> 30] }

\* MarketDataOverride(additive_bump=..) / MarketDataOverride(replacement=..)
MarketDataOverride(additive_bump, replacement) ==
    [additive_bump |-> additive_bump, replacement |-> replacement]

\* OptionValuation(option_valuation_id=.., qty=..) with every other field unset
OptionValuation(option_valuation_id, qty) ==
    [option_valuation_id |-> option_valuation_id,
     qty                 |-> qty,
     option_asset_id     |-> None,
     underlier_asset_id  |-> None,
     strike              |-> None,
     expiry              |-> None,
     option_type         |-> None,
     option_style        |-> None,
     contract_size       |-> None,
     spot_price_override |-> None,
     implied_vol_override |-> None]

\* the_default_optval: the pre-defined option, given by its asset id
DefaultOptval(id, info) ==
    [OptionValuation(id, demo0_qty) EXCEPT !.option_asset_id = Some(info.asset_id)]

\* mutant: the replica is built with contract_size=1, not the option's own
ReplicaOptval_UnitContract(id, default, info) ==
    [OptionValuation(id, default.qty) EXCEPT
        !.underlier_asset_id = Some(info.underlier_asset_id),
        !.strike             = Some(info.strike_price),
        !.expiry             = Some(info.expiry_datetime),
        !.option_type        = Some(info.option_type),
        !.option_style       = Some(info.option_style),
        !.contract_size      = Some(1)]

\* the_replica_optval: the same option, given by its attributes
ReplicaOptval(id, default, info) ==
    [OptionValuation(id, default.qty) EXCEPT
        !.underlier_asset_id = Some(info.underlier_asset_id),
        !.strike             = Some(info.strike_price),
        !.expiry             = Some(info.expiry_datetime),
        !.option_type        = Some(info.option_type),
        !.option_style       = Some(info.option_style),
        !.contract_size      = Some(info.contract_size)]

-----------------------------------------------------------------------------
(* The remote pricer, as the notebooks describe it *)

InfoOf(asset_id) ==
    option_infos[CHOOSE i \in DOMAIN option_infos : option_infos[i].asset_id = asset_id]

\* the contract terms a valuation refers to: looked up for a pre-defined
\* option, taken from the attributes otherwise
Terms(ov) ==
    IF ov.option_asset_id # None
      THEN LET info == InfoOf(the(ov.option_asset_id)) IN
           [underlier |-> info.underlier_asset_id, strike |-> info.strike_price,
            expiry |-> info.expiry_datetime, option_type |-> info.option_type,
            option_style |-> info.option_style,
            contract_size |-> IF ov.contract_size # None THEN the(ov.contract_size)
                                                          ELSE info.contract_size]
      ELSE [underlier |-> the(ov.underlier_asset_id), strike |-> the(ov.strike),
            expiry |-> the(ov.expiry), option_type |-> the(ov.option_type),
            option_style |-> the(ov.option_style),
            contract_size |-> the(ov.contract_size)]

\* market value with a MarketDataOverride applied: a replacement replaces
\* it, an additive bump is added to it
ApplyOverride(base, override) ==
    IF override = None THEN base
    ELSE IF the(override).replacement # None THEN the(the(override).replacement)
    ELSE IF the(override).additive_bump # None THEN base + the(the(override).additive_bump)
    ELSE base

Intrinsic(option_type, spot, strike) ==
    IF option_type = "CALL" THEN Max(spot - strike, 0) ELSE Max(strike - spot, 0)

\* one valuation result, priced off market data mkt as of time t
ValuationResult(ov, mkt, t) ==
    LET terms == Terms(ov)
        spot  == ApplyOverride(mkt.spot, ov.spot_price_override)
        iv    == ApplyOverride(mkt.iv, ov.implied_vol_override)
    IN  [option_valuation_id |-> ov.option_valuation_id,
         pv         |-> ov.qty * terms.contract_size *
                          (Intrinsic(terms.option_type, spot, terms.strike)
                             + iv * Max(terms.expiry - t, 0)),
         spot_price |-> spot,
         iv         |-> iv]

\* the pricer's answer to a request received at wall-clock time t, given the
\* history mkts of market data (mkts[k + 1] is the market at time k):
\* historical mode prices as of request.as_of_time, real-time mode as of t
PricerResults(request, mkts, t) ==
    LET at == IF request.as_of_time # None THEN the(request.as_of_time) ELSE t
    IN  [i \in DOMAIN request.options |->
            ValuationResult(request.options[i], mkts[at + 1], at)]

-----------------------------------------------------------------------------
(* Client side of one valuation call *)

\* mutant: an empty as_of_time is replaced by the time the session started
OptionValuationRequest_StaleAsOf(the_optvals, as_of_time) ==
    [options |-> values(the_optvals),
     as_of_time |-> IF as_of_time = None THEN Some(0) ELSE as_of_time]

\* mutant: as_of_time is never put on the request
OptionValuationRequest_DropsAsOf(the_optvals, as_of_time) ==
    [options |-> values(the_optvals), as_of_time |-> None]

\* mutant: the last value of the dictionary is left out of the request
OptionValuationRequest_DropsLast(the_optvals, as_of_time) ==
    [options |-> SubSeq(values(the_optvals), 1, Len(the_optvals) - 1),
     as_of_time |-> as_of_time]

\* OptionValuationRequest(options=[v for v in the_optvals.values()]),
\* request.as_of_time set only when as_of_time is not None
OptionValuationRequest(the_optvals, as_of_time) ==
    [options |-> values(the_optvals), as_of_time |-> as_of_time]

\* PricerApi.compute_option_valuations: the deserialized list of results of a
\* good response; an HTTP error status or an undecodable body raises
ResponseRaises(resp) == resp.status # "ok"

\* OptionValuationResultTablePlot(val_results, the_optvals).results_table:
\* one column per key, holding the result with the id of the_optvals[key]
ResultFor(val_results, id) ==
    val_results[CHOOSE i \in DOMAIN val_results :
                   /\ val_results[i].option_valuation_id = id
                   /\ \A j \in DOMAIN val_results :
                         val_results[j].option_valuation_id = id => j <= i]

results_table(val_results, the_optvals) ==
    [i \in DOMAIN the_optvals |->
        [key |-> the_optvals[i].key,
         val |-> ResultFor(val_results, the_optvals[i].val.option_valuation_id)]]

\* a key whose valuation id has no result makes the table lookup raise
TableRaises(val_results, the_optvals) ==
    \E i \in DOMAIN the_optvals :
        \A j \in DOMAIN val_results :
            val_results[j].option_valuation_id # the_optvals[i].val.option_valuation_id

\* mutant: a failed API call is swallowed and a table of empty results
\* is handed back
RunComputeOutcome_Swallows(resp, the_optvals) ==
    [raised |-> FALSE,
     table  |-> Some([i \in DOMAIN the_optvals |->
                        [key |-> the_optvals[i].key,
                         val |-> [option_valuation_id |->
                                     the_optvals[i].val.option_valuation_id,
                                  pv |-> 0, spot_price |-> 0, iv |-> 0]]])]

\* what run_compute_option_valuations hands back for a response: the
\* results table, or nothing when the API call or the table lookup raised
RunComputeOutcome(resp, the_optvals) ==
    IF ResponseRaises(resp) \/ TableRaises(resp.body, the_optvals)
      THEN [raised |-> TRUE,  table |-> None]
      ELSE [raised |-> FALSE, table |-> Some(results_table(resp.body, the_optvals))]

-----------------------------------------------------------------------------
(* Notebook cells that build dictionaries of option valuations *)

\* bumps_in_perc, and spot_bumps = {f'{sb}': spot_base*sb/100 ...}
bumps_in_perc == [i \in 1..NumBumps |-> (i - 1) * 50 - 50]

spot_bumps(spot_base) ==
    [i \in 1..NumBumps |->
        [key |-> ToString(bumps_in_perc[i]),
         val |-> (spot_base * bumps_in_perc[i]) \div 100]]

\* expiry_times = {d: t0 + timedelta(d) for d in [...]}
expiry_times(t0) ==
    [i \in 1..NumBumps |-> [key |-> i, val |-> t0 + i]]

\* mutant: the copy keeps the id of the base valuation
SpotBumpedCopy_KeepsId(base_optval, new_id, sb_val) ==
    [base_optval EXCEPT
        !.spot_price_override = Some(MarketDataOverride(Some(sb_val), None))]

\* loop body of the spot bump cell: copy, fresh id, additive spot bump
SpotBumpedCopy(base_optval, new_id, sb_val) ==
    [base_optval EXCEPT
        !.option_valuation_id = new_id,
        !.spot_price_override = Some(MarketDataOverride(Some(sb_val), None))]

\* spot_bumps_optvals of the option pricing notebook
SpotBumpsOptvals(base_optval, ids, bumps) ==
    <<[key |-> "base", val |-> base_optval]>> \o
    [i \in DOMAIN bumps |->
        [key |-> "spot_bump_" \o bumps[i].key \o "%",
         val |-> SpotBumpedCopy(base_optval, ids[i], bumps[i].val)]]

\* loop body of the expiry cell: copy, fresh id, new expiry
ExpiryCopy(base_optval, new_id, ex) ==
    [base_optval EXCEPT !.option_valuation_id = new_id, !.expiry = Some(ex)]

\* expiries_optvals: ATM options (strike = spot_base) over expiry_times
ExpiriesOptvals(replica, spot_base, ids, expiries) ==
    LET base_optval == [replica EXCEPT !.strike = Some(spot_base)] IN
    [i \in DOMAIN expiries |->
        [key |-> ToString(expiries[i].key) \o "-days",
         val |-> ExpiryCopy(base_optval, ids[i], expiries[i].val)]]

\* serenity_sdk.renderers.derivatives.overrides.apply_option_valuation_overrides:
\* a copy under a new id with the given overrides applied; a spot or vol
\* override is an additive bump unless its is_bump flag is False
apply_option_valuation_overrides(optval, new_id, spot_override, spot_is_bump, vol_override, vol_is_bump, strike_override, expiry_override) ==
    [optval EXCEPT
        !.option_valuation_id = new_id,
        !.spot_price_override =
            IF spot_override = None THEN @
            ELSE IF spot_is_bump THEN Some(MarketDataOverride(spot_override, None))
                                 ELSE Some(MarketDataOverride(None, spot_override)),
        !.implied_vol_override =
            IF vol_override = None THEN @
            ELSE IF vol_is_bump THEN Some(MarketDataOverride(vol_override, None))
                                ELSE Some(MarketDataOverride(None, vol_override)),
        !.strike = IF strike_override = None THEN @ ELSE strike_override,
        !.expiry = IF expiry_override = None THEN @ ELSE expiry_override]

\* spot_bumps_optvals of the reference data notebook, built with the helper
HelperSpotBumpsOptvals(base_optval, ids, bumps) ==
    <<[key |-> "base", val |-> base_optval]>> \o
    [i \in DOMAIN bumps |->
        [key |-> "spot_bump_" \o bumps[i].key \o "%",
         val |-> apply_option_valuation_overrides(
                     base_optval, ids[i], Some(bumps[i].val), TRUE,
                     None, TRUE, None, None)]]

\* spot_replacement = spot_base * 1.2, vol_replacement = vol_base * 1.3
SpotReplacement(spot_base) == (spot_base * 12) \div 10

VolReplacement(vol_base) == (vol_base * 13) \div 10

\* mutant: spot_is_bump / vol_is_bump are left at their default (bump)
ReplacementOptval_AsBump(replica, new_id, spot_repl, vol_repl) ==
    apply_option_valuation_overrides(replica, new_id,
        Some(spot_repl), TRUE, Some(vol_repl), TRUE, None, None)

\* my_optval of the Replacements cell
ReplacementOptval(replica, new_id, spot_repl, vol_repl) ==
    apply_option_valuation_overrides(replica, new_id,
        Some(spot_repl), FALSE, Some(vol_repl), FALSE, None, None)

-----------------------------------------------------------------------------
(* The spot bump plot cell *)

\* result_base = res_table['base']
result_base(table) == Get(table, "base")

\* result_bumps = res_table[[c for c in res_table.columns if c!='base']]
result_bumps(table) == SelectSeq(table, LAMBDA c : c.key # "base")

\* sb_vals = np.array(list(spot_bumps.values()))
sb_vals(bumps) == values(bumps)

\* the cell raises and draws nothing when the table has no column 'base'
\* (KeyError), or when x and y differ in length (ValueError of plt.plot)
PlotRaises(table, bumps) ==
    \/ table = None
    \/ ~HasKey(the(table), "base")
    \/ Len(result_bumps(the(table))) # Len(sb_vals(bumps))

\* mutant: the pv of the bumped columns is plotted as it is
PnlLine_NotRelative(table, bumps) ==
    [k \in DOMAIN sb_vals(bumps) |->
        [x |-> sb_vals(bumps)[k],
         y |-> result_bumps(table)[k].val.pv]]

\* plt.plot(sb_vals, result_bumps.loc['pv'] - pv_base, ...): the points of
\* the line, x and y paired by position
PnlLine(table, bumps) ==
    LET pv_base == result_base(table).pv IN
    [k \in DOMAIN sb_vals(bumps) |->
        [x |-> sb_vals(bumps)[k],
         y |-> result_bumps(table)[k].val.pv - pv_base]]

-----------------------------------------------------------------------------
(* State of a notebook session against the remote pricer *)

\* the code cells of the option pricing notebooks, in the order they appear
Cells ==
    << "define", "rt_loop", "hist_loop", "build_demo1", "run", "keep_base",
       "build_spot_bumps", "run", "plot_spot_bumps", "build_replacement", "run",
       "build_expiries", "run_as_of" >>

VARIABLES
    pc,                  \* index in Cells of the next cell to run
    now,                 \* wall-clock time
    market,              \* market data history: market[k + 1] is the market at time k
    usedIds,             \* ids uuid4() has handed out
    the_default_optval,  \* notebook variable, None until defined
    the_replica_optval,  \* notebook variable, None until defined
    optvals,             \* the dictionary of option valuations last built
    spot_base,           \* notebook variable, None until kept
    vol_base,            \* notebook variable, None until kept
    spot_replacement,    \* notebook variable, None until the Replacements cell ran
    vol_replacement,     \* notebook variable, None until the Replacements cell ran
    as_of_time,          \* notebook variable, None until set
    a_res,               \* notebook variable: the runs collected by the loop cell
    loop,                \* position in the historical loop cell, or None
    call,                \* the run_compute_option_valuations call in progress, or None
    inflight,            \* HTTP requests sent and not yet answered
    response,            \* HTTP response that reached the client, or None
    res_table,           \* notebook variable: the table last returned
    last,                \* history: the call that finished last, or None
    ncalls,              \* history: invocations of run_compute_option_valuations
    nreq,                \* history: HTTP requests put on the wire
    nresp,               \* history: HTTP responses received
    plotted              \* the 'bump & pv change' line last drawn, or None

pricingVars ==
    <<pc, now, market, usedIds, the_default_optval, the_replica_optval, optvals,
      spot_base, vol_base, spot_replacement, vol_replacement, as_of_time,
      a_res, loop, call, inflight, response, res_table, last, ncalls, nreq, nresp,
      plotted>>

\* the reference data notebooks
VARIABLES
    asset_summaries,     \* the asset catalog the service returns
    asset_master,        \* notebook variable: the loaded symbol maps, or None
    portfolio_raw,       \* notebook variable: symbol -> quantity
    pf_symbology,        \* the symbology portfolio_raw was given in
    portfolio,           \* notebook variable: the positions by asset id, or None
    positions            \* notebook variable: portfolio.to_asset_positions(), or None

refdataVars ==
    <<asset_summaries, asset_master, portfolio_raw, pf_symbology, portfolio, positions>>

\* the portfolio valuation notebook
VARIABLES
    v_portfolio,         \* notebook variable portfolio: positions by asset, or None
    ctx,                 \* notebook variable: the PricingContext object, or None
    heap,                \* the result objects the valuation calls have returned
    result,              \* notebook variable: index in heap of the latest result, or None
    last_request,        \* history: the request of the latest valuation call, or None
    nportfolios          \* history: portfolios built

valuationVars == <<v_portfolio, ctx, heap, result, last_request, nportfolios>>

\* the connection cells every notebook starts with
VARIABLES
    config_id,           \* environment variable SERENITY_CONFIG_ID, or None
    connect_widget,      \* notebook variable: the ConnectWidget object, or None
    api,                 \* notebook variable: what get_api() returned, or None
    api_calls,           \* history: calls of get_api()
    clicks               \* history: presses of the connect button

widgetVars == <<config_id, connect_widget, api, api_calls, clicks>>

\* a working copy in which the maintainer runs make
VARIABLES
    files,               \* which of the directories venv, build, dist exist
    last_make,           \* history: the latest make invocation and how it ended, or None
    nmake                \* history: make invocations

makeVars == <<files, last_make, nmake>>

\* a working copy in which the maintainer runs setup.sh
VARIABLES
    sh_pc,               \* the command of setup.sh that runs next; past the last when it has ended
    exit_status,         \* exit status of the command that ran last
    poetry_available,    \* poetry can be run
    in_project,          \* Poetry setting virtualenvs.in-project
    venv_location,       \* where the project's virtual environment is, or None
    deps_installed,      \* the dependencies of pyproject.toml are installed in it
    hooks,               \* the git hooks installed in the local repository
    in_project_at_install, \* history: in_project when poetry install ran, or None
    deps_at_hooks        \* history: deps_installed when the hooks were installed, or None

setupVars ==
    <<sh_pc, exit_status, poetry_available, in_project, venv_location,
      deps_installed, hooks, in_project_at_install, deps_at_hooks>>

\* uuid4(): an id never handed out before in the session
FreshIds(n) == [i \in 1..n |-> Cardinality(usedIds) + i]

\* mutant: the call hands back before its response has arrived
CallReturned_Async == TRUE

\* run_compute_option_valuations is a blocking call: the statement after
\* it runs only when it has returned
CallReturned == call = None

\* a notebook cell runs only when the previous cell has finished
CellIdle == CallReturned /\ loop = None

\* the cell named name is the next one to run
AtCell(name) == pc \in DOMAIN Cells /\ Cells[pc] = name /\ CellIdle

\* mutant: a call with the arguments of the previous successful call reuses
\* its response instead of asking again
HttpRequestsOf_Cached(the_optvals, as_of) ==
    IF /\ last # None
       /\ ~the(last).raised
       /\ the(last).the_optvals = the_optvals
       /\ the(last).as_of_time = as_of
      THEN << >>
      ELSE << OptionValuationRequest(the_optvals, as_of) >>

\* the HTTP requests one run_compute_option_valuations invocation issues:
\* it builds one request and calls the API once
HttpRequestsOf(the_optvals, as_of) ==
    << OptionValuationRequest(the_optvals, as_of) >>

InitPricing ==
    /\ pc = 1
    /\ now = 0
    /\ market \in {<<m>> : m \in MarketStates}
    /\ usedIds = {}
    /\ the_default_optval = None
    /\ the_replica_optval = None
    /\ optvals = <<>>
    /\ spot_base = None
    /\ vol_base = None
    /\ spot_replacement = None
    /\ vol_replacement = None
    /\ as_of_time = None
    /\ a_res = <<>>
    /\ loop = None
    /\ call = None
    /\ inflight = <<>>
    /\ response = None
    /\ res_table = None
    /\ last = None
    /\ ncalls = 0
    /\ nreq = 0
    /\ nresp = 0
    /\ plotted = None

\* time passes while the user or the network waits; the market moves
Tick ==
    /\ now < MaxTime
    /\ now' = now + 1
    /\ \E m \in MarketStates : market' = Append(market, m)
    /\ UNCHANGED refdataVars
    /\ UNCHANGED valuationVars
    /\ UNCHANGED widgetVars
    /\ UNCHANGED makeVars
    /\ UNCHANGED setupVars
    /\ UNCHANGED plotted
    /\ UNCHANGED <<pc, usedIds, the_default_optval, the_replica_optval, optvals,
                   spot_base, vol_base, spot_replacement, vol_replacement,
                   as_of_time, a_res, loop, call, inflight, response, res_table,
                   last, ncalls, nreq, nresp>>

\* the cells defining the_default_optval and the_replica_optval from the
\* option selected in the chooser, and demo0_optvals = {'predefined': ..}
DefineDemoOptvals ==
    /\ AtCell("define")
    /\ \E k \in DOMAIN option_infos :
          LET ids == FreshIds(2)
              default == DefaultOptval(ids[1], option_infos[k]) IN
          /\ the_default_optval' = Some(default)
          /\ the_replica_optval' = Some(ReplicaOptval(ids[2], default, option_infos[k]))
          /\ optvals' = <<[key |-> "predefined", val |-> default]>>
          /\ usedIds' = usedIds \cup Range(ids)
    /\ pc' = pc + 1
    /\ UNCHANGED refdataVars
    /\ UNCHANGED valuationVars
    /\ UNCHANGED widgetVars
    /\ UNCHANGED makeVars
    /\ UNCHANGED setupVars
    /\ UNCHANGED plotted
    /\ UNCHANGED <<now, market, spot_base, vol_base, spot_replacement,
                   vol_replacement, as_of_time, a_res, loop, call, inflight,
                   response, res_table, last, ncalls, nreq, nresp>>

\* demo1_optvals = {'predefined': .., 'predefined_replica': ..}
BuildDemo1 ==
    /\ AtCell("build_demo1")
    /\ optvals' = <<[key |-> "predefined", val |-> the(the_default_optval)],
                    [key |-> "predefined_replica", val |-> the(the_replica_optval)]>>
    /\ pc' = pc + 1
    /\ UNCHANGED refdataVars
    /\ UNCHANGED valuationVars
    /\ UNCHANGED widgetVars
    /\ UNCHANGED makeVars
    /\ UNCHANGED setupVars
    /\ UNCHANGED plotted
    /\ UNCHANGED <<now, market, usedIds, the_default_optval, the_replica_optval,
                   spot_base, vol_base, spot_replacement, vol_replacement,
                   as_of_time, a_res, loop, call, inflight, response, res_table,
                   last, ncalls, nreq, nresp>>

\* spot_base / vol_base = first column of the table of the previous run
KeepBaseValues ==
    /\ AtCell("keep_base")
    /\ res_table # None
    /\ spot_base' = Some(the(res_table)[1].val.spot_price)
    /\ vol_base' = Some(the(res_table)[1].val.iv)
    /\ pc' = pc + 1
    /\ UNCHANGED refdataVars
    /\ UNCHANGED valuationVars
    /\ UNCHANGED widgetVars
    /\ UNCHANGED makeVars
    /\ UNCHANGED setupVars
    /\ UNCHANGED plotted
    /\ UNCHANGED <<now, market, usedIds, the_default_optval, the_replica_optval,
                   optvals, spot_replacement, vol_replacement, as_of_time, a_res,
                   loop, call, inflight, response, res_table, last, ncalls, nreq,
                   nresp>>

\* the spot bump cell of the option pricing notebook
BuildSpotBumps ==
    /\ AtCell("build_spot_bumps")
    /\ LET ids == FreshIds(NumBumps) IN
          /\ optvals' = SpotBumpsOptvals(the(the_replica_optval), ids,
                                         spot_bumps(the(spot_base)))
          /\ usedIds' = usedIds \cup Range(ids)
    /\ pc' = pc + 1
    /\ UNCHANGED refdataVars
    /\ UNCHANGED valuationVars
    /\ UNCHANGED widgetVars
    /\ UNCHANGED makeVars
    /\ UNCHANGED setupVars
    /\ UNCHANGED plotted
    /\ UNCHANGED <<now, market, the_default_optval, the_replica_optval,
                   spot_base, vol_base, spot_replacement, vol_replacement,
                   as_of_time, a_res, loop, call, inflight, response, res_table,
                   last, ncalls, nreq, nresp>>

\* the spot bump plot cell: draws the line, or raises and leaves the
\* figure of the previous run of the cell
PlotSpotBumps ==
    /\ AtCell("plot_spot_bumps")
    /\ plotted' = IF PlotRaises(res_table, spot_bumps(the(spot_base)))
                    THEN plotted
                    ELSE Some(PnlLine(the(res_table), spot_bumps(the(spot_base))))
    /\ pc' = pc + 1
    /\ UNCHANGED refdataVars
    /\ UNCHANGED valuationVars
    /\ UNCHANGED widgetVars
    /\ UNCHANGED makeVars
    /\ UNCHANGED setupVars
    /\ UNCHANGED <<now, market, usedIds, the_default_optval, the_replica_optval,
                   optvals, spot_base, vol_base, spot_replacement, vol_replacement,
                   as_of_time, a_res, loop, call, inflight, response, res_table,
                   last, ncalls, nreq, nresp>>

\* the spot bump cell of the reference data notebook
BuildHelperSpotBumps ==
    /\ AtCell("build_spot_bumps")
    /\ LET ids == FreshIds(NumBumps) IN
          /\ optvals' = HelperSpotBumpsOptvals(the(the_replica_optval), ids,
                                               spot_bumps(the(spot_base)))
          /\ usedIds' = usedIds \cup Range(ids)
    /\ pc' = pc + 1
    /\ UNCHANGED refdataVars
    /\ UNCHANGED valuationVars
    /\ UNCHANGED widgetVars
    /\ UNCHANGED makeVars
    /\ UNCHANGED setupVars
    /\ UNCHANGED plotted
    /\ UNCHANGED <<now, market, the_default_optval, the_replica_optval,
                   spot_base, vol_base, spot_replacement, vol_replacement,
                   as_of_time, a_res, loop, call, inflight, response, res_table,
                   last, ncalls, nreq, nresp>>

\* the Replacements cell of the reference data notebook
BuildReplacement ==
    /\ AtCell("build_replacement")
    /\ LET ids == FreshIds(1) IN
          /\ spot_replacement' = Some(SpotReplacement(the(spot_base)))
          /\ vol_replacement' = Some(VolReplacement(the(vol_base)))
          /\ optvals' =
                <<[key |-> "base", val |-> the(the_replica_optval)],
                  [key |-> "replacement",
                   val |-> ReplacementOptval(the(the_replica_optval), ids[1],
                                             SpotReplacement(the(spot_base)),
                                             VolReplacement(the(vol_base)))]>>
          /\ usedIds' = usedIds \cup Range(ids)
    /\ pc' = pc + 1
    /\ UNCHANGED refdataVars
    /\ UNCHANGED valuationVars
    /\ UNCHANGED widgetVars
    /\ UNCHANGED makeVars
    /\ UNCHANGED setupVars
    /\ UNCHANGED plotted
    /\ UNCHANGED <<now, market, the_default_optval, the_replica_optval,
                   spot_base, vol_base, as_of_time, a_res, loop, call, inflight,
                   response, res_table, last, ncalls, nreq, nresp>>

\* the expiry cell: now_utc = datetime.utcnow(), the dictionary over
\* expiry_times, and as_of_time = now_utc for the run that follows
BuildExpiries ==
    /\ AtCell("build_expiries")
    /\ LET ids == FreshIds(NumBumps) IN
          /\ optvals' = ExpiriesOptvals(the(the_replica_optval), the(spot_base),
                                        ids, expiry_times(now))
          /\ usedIds' = usedIds \cup Range(ids)
    /\ as_of_time' = Some(now)
    /\ pc' = pc + 1
    /\ UNCHANGED refdataVars
    /\ UNCHANGED valuationVars
    /\ UNCHANGED widgetVars
    /\ UNCHANGED makeVars
    /\ UNCHANGED setupVars
    /\ UNCHANGED plotted
    /\ UNCHANGED <<now, market, the_default_optval, the_replica_optval,
                   spot_base, vol_base, spot_replacement, vol_replacement,
                   a_res, loop, call, inflight, response, res_table,
                   last, ncalls, nreq, nresp>>

\* run_compute_option_valuations(the_optvals, as_of) up to the point where
\* its request is on the wire
IssueCall(the_optvals, as_of) ==
    LET reqs == HttpRequestsOf(the_optvals, as_of) IN
    /\ call' = Some([the_optvals |-> the_optvals, as_of_time |-> as_of,
                     requests |-> reqs])
    /\ ncalls' = ncalls + 1
    /\ inflight' = inflight \o reqs
    /\ nreq' = nreq + Len(reqs)

\* a cell res_table = run_compute_option_valuations(optvals): real-time mode
RunCell ==
    /\ AtCell("run")
    /\ IssueCall(optvals, None)
    /\ pc' = pc + 1
    /\ UNCHANGED refdataVars
    /\ UNCHANGED valuationVars
    /\ UNCHANGED widgetVars
    /\ UNCHANGED makeVars
    /\ UNCHANGED setupVars
    /\ UNCHANGED plotted
    /\ UNCHANGED <<now, market, usedIds, the_default_optval, the_replica_optval,
                   optvals, spot_base, vol_base, spot_replacement, vol_replacement,
                   as_of_time, a_res, loop, response, res_table, last, nresp>>

\* a cell res_table = run_compute_option_valuations(optvals, as_of_time=as_of_time)
RunCellAsOf ==
    /\ AtCell("run_as_of")
    /\ IssueCall(optvals, as_of_time)
    /\ pc' = pc + 1
    /\ UNCHANGED refdataVars
    /\ UNCHANGED valuationVars
    /\ UNCHANGED widgetVars
    /\ UNCHANGED makeVars
    /\ UNCHANGED setupVars
    /\ UNCHANGED plotted
    /\ UNCHANGED <<now, market, usedIds, the_default_optval, the_replica_optval,
                   optvals, spot_base, vol_base, spot_replacement, vol_replacement,
                   as_of_time, a_res, loop, response, res_table, last, nresp>>

\* the historical loop cell starts: as_of_time = datetime.utcnow()
\* [- timedelta(hours=5)], a_res = {}
HistLoopBegin ==
    /\ AtCell("hist_loop")
    /\ \E back \in {0, 1} :
          /\ now - back >= 0
          /\ as_of_time' = Some(now - back)
    /\ a_res' = <<>>
    /\ loop' = Some([j |-> 0, sleeping |-> FALSE, realtime |-> FALSE, now_ts |-> 0])
    /\ pc' = pc + 1
    /\ UNCHANGED refdataVars
    /\ UNCHANGED valuationVars
    /\ UNCHANGED widgetVars
    /\ UNCHANGED makeVars
    /\ UNCHANGED setupVars
    /\ UNCHANGED plotted
    /\ UNCHANGED <<now, market, usedIds, the_default_optval, the_replica_optval,
                   optvals, spot_base, vol_base, spot_replacement, vol_replacement,
                   call, inflight, response, res_table, last, ncalls, nreq, nresp>>

\* the real-time loop cell starts: a_res = {}
RtLoopBegin ==
    /\ AtCell("rt_loop")
    /\ a_res' = <<>>
    /\ loop' = Some([j |-> 0, sleeping |-> FALSE, realtime |-> TRUE, now_ts |-> now])
    /\ pc' = pc + 1
    /\ UNCHANGED refdataVars
    /\ UNCHANGED valuationVars
    /\ UNCHANGED widgetVars
    /\ UNCHANGED makeVars
    /\ UNCHANGED setupVars
    /\ UNCHANGED plotted
    /\ UNCHANGED <<now, market, usedIds, the_default_optval, the_replica_optval,
                   optvals, spot_base, vol_base, spot_replacement, vol_replacement,
                   as_of_time, call, inflight, response, res_table, last, ncalls,
                   nreq, nresp>>

\* one iteration of the real-time loop: now_ts = datetime.utcnow(), then
\* run_compute_option_valuations(demo0_optvals) with as_of_time left empty
RtLoopCall ==
    /\ loop # None
    /\ the(loop).realtime
    /\ ~the(loop).sleeping
    /\ CallReturned
    /\ IssueCall(optvals, None)
    /\ loop' = Some([the(loop) EXCEPT !.now_ts = now])
    /\ UNCHANGED refdataVars
    /\ UNCHANGED valuationVars
    /\ UNCHANGED widgetVars
    /\ UNCHANGED makeVars
    /\ UNCHANGED setupVars
    /\ UNCHANGED plotted
    /\ UNCHANGED <<pc, now, market, usedIds, the_default_optval, the_replica_optval,
                   optvals, spot_base, vol_base, spot_replacement, vol_replacement,
                   as_of_time, a_res, response, res_table, last, nresp>>

\* one iteration calls run_compute_option_valuations(.., as_of_time=as_of_time)
HistLoopCall ==
    /\ loop # None
    /\ ~the(loop).realtime
    /\ ~the(loop).sleeping
    /\ CallReturned
    /\ IssueCall(optvals, as_of_time)
    /\ UNCHANGED refdataVars
    /\ UNCHANGED valuationVars
    /\ UNCHANGED widgetVars
    /\ UNCHANGED makeVars
    /\ UNCHANGED setupVars
    /\ UNCHANGED plotted
    /\ UNCHANGED <<pc, now, market, usedIds, the_default_optval, the_replica_optval,
                   optvals, spot_base, vol_base, spot_replacement, vol_replacement,
                   as_of_time, a_res, loop, response, res_table, last, nresp>>

\* sleep(sleep_sec) between two iterations of either loop
HistLoopSleep ==
    /\ loop # None
    /\ the(loop).sleeping
    /\ now < MaxTime
    /\ now' = now + 1
    /\ \E m \in MarketStates : market' = Append(market, m)
    /\ loop' = Some([the(loop) EXCEPT !.sleeping = FALSE])
    /\ UNCHANGED refdataVars
    /\ UNCHANGED valuationVars
    /\ UNCHANGED widgetVars
    /\ UNCHANGED makeVars
    /\ UNCHANGED setupVars
    /\ UNCHANGED plotted
    /\ UNCHANGED <<pc, usedIds, the_default_optval, the_replica_optval, optvals,
                   spot_base, vol_base, spot_replacement, vol_replacement,
                   as_of_time, a_res, call, inflight, response, res_table,
                   last, ncalls, nreq, nresp>>

\* the remote service answers the oldest request: the results in any
\* order, an HTTP error status, or a body that does not deserialize
ServiceRespond ==
    /\ inflight # <<>>
    /\ response = None
    /\ LET request == Head(inflight)
           results == PricerResults(request, market, now)
       IN  \/ \E p \in Perms(Len(results)) :
                 response' = Some([status |-> "ok", request |-> request,
                                   body |-> [i \in DOMAIN results |-> results[p[i]]]])
           \/ \E status \in {"http_error", "malformed"} :
                 response' = Some([status |-> status, request |-> request,
                                   body |-> <<>>])
    /\ inflight' = Tail(inflight)
    /\ nresp' = nresp + 1
    /\ UNCHANGED refdataVars
    /\ UNCHANGED valuationVars
    /\ UNCHANGED widgetVars
    /\ UNCHANGED makeVars
    /\ UNCHANGED setupVars
    /\ UNCHANGED plotted
    /\ UNCHANGED <<pc, now, market, usedIds, the_default_optval, the_replica_optval,
                   optvals, spot_base, vol_base, spot_replacement, vol_replacement,
                   as_of_time, a_res, loop, call, res_table, last, ncalls, nreq>>

\* the loop cell after an iteration's call returned: the run is recorded
\* and the loop sleeps or ends; an exception ends the cell
LoopAfterCall(outcome) ==
    IF loop = None THEN UNCHANGED <<a_res, loop>>
    ELSE IF outcome.raised THEN loop' = None /\ UNCHANGED a_res
    ELSE /\ a_res' = SetItem(a_res,
                              IF the(loop).realtime THEN the(loop).now_ts ELSE the(loop).j,
                              the(outcome.table)[1].val)
         /\ loop' = IF the(loop).j < num_calls - 1
                      THEN Some([the(loop) EXCEPT !.j = @ + 1, !.sleeping = TRUE])
                      ELSE None

\* the call returns: the table is assigned to res_table, or the error
\* propagates out of the cell and res_table keeps its value
ReturnFromCall ==
    /\ call # None
    /\ response # None
    /\ LET outcome == RunComputeOutcome(the(response), the(call).the_optvals) IN
       /\ res_table' = IF outcome.raised THEN res_table ELSE outcome.table
       /\ last' = Some([the_optvals |-> the(call).the_optvals,
                        as_of_time  |-> the(call).as_of_time,
                        requests    |-> the(call).requests,
                        response    |-> the(response),
                        raised      |-> outcome.raised,
                        table       |-> outcome.table])
       /\ LoopAfterCall(outcome)
    /\ call' = None
    /\ response' = None
    /\ UNCHANGED refdataVars
    /\ UNCHANGED valuationVars
    /\ UNCHANGED widgetVars
    /\ UNCHANGED makeVars
    /\ UNCHANGED setupVars
    /\ UNCHANGED plotted
    /\ UNCHANGED <<pc, now, market, usedIds, the_default_optval, the_replica_optval,
                   optvals, spot_base, vol_base, spot_replacement, vol_replacement,
                   as_of_time, inflight, ncalls, nreq, nresp>>

-----------------------------------------------------------------------------
(* Reference data: the asset master and portfolio construction *)

AssetIds == {"id1", "id2", "id3"}

NativeSymbols == {"BTC", "ETH", "SOL"}

Symbologies == {"NATIVE", "SERENITY"}

\* long and short quantities, as in the sample portfolios
Quantities == {100, 0 - 10000}

\* the Serenity symbol of an asset, unique per asset
AssetSymbol(asset_id) == "tok." \o asset_id

\* the asset summaries the service may hold
Summaries ==
    { [assetId |-> a, nativeSymbol |-> n, assetSymbol |-> AssetSymbol(a)] :
        a \in AssetIds, n \in NativeSymbols }

\* mutant: a plain dict assignment, with no check of the value side
bidict_put_plain(b, k, v) ==
    [raised |-> FALSE, b |-> SetItem(b, k, v)]

\* bidict: b[k] = v. An existing key is overwritten; a value already
\* present under another key raises and leaves the map as it was
bidict_put(b, k, v) ==
    IF \E i \in DOMAIN b : b[i].val = v /\ b[i].key # k
      THEN [raised |-> TRUE,  b |-> b]
      ELSE [raised |-> FALSE, b |-> SetItem(b, k, v)]

\* AssetMaster(asset_summaries): one symbol-to-id bidict per symbology,
\* filled summary by summary
RECURSIVE LoadMaps(_, _)
LoadMaps(summaries, maps) ==
    IF summaries = << >> THEN [raised |-> FALSE, maps |-> maps]
    ELSE LET summary  == Head(summaries)
             native   == bidict_put(maps["NATIVE"], summary.nativeSymbol, summary.assetId)
             serenity == bidict_put(maps["SERENITY"], summary.assetSymbol, summary.assetId)
         IN  IF native.raised \/ serenity.raised
               THEN [raised |-> TRUE, maps |-> maps]
               ELSE LoadMaps(Tail(summaries),
                             [maps EXCEPT !["NATIVE"] = native.b,
                                          !["SERENITY"] = serenity.b])

AssetMaster(summaries) ==
    LoadMaps(summaries, [y \in Symbologies |-> << >>])

\* AssetMaster.get_asset_id_by_symbol / get_symbol_by_id on the maps
KnowsSymbol(maps, symbol, symbology) == HasKey(maps[symbology], symbol)

KnowsId(maps, asset_id, symbology) ==
    \E i \in DOMAIN maps[symbology] : maps[symbology][i].val = asset_id

get_asset_id_by_symbol(maps, symbol, symbology) == Get(maps[symbology], symbol)

get_symbol_by_id(maps, asset_id, symbology) ==
    maps[symbology][CHOOSE i \in DOMAIN maps[symbology] :
                       maps[symbology][i].val = asset_id].key

\* the portfolio_raw dictionaries of the notebooks: symbol -> quantity
RECURSIVE RawPortfolios(_, _)
RawPortfolios(symbols, n) ==
    IF n = 0 THEN {<< >>}
    ELSE LET shorter == RawPortfolios(symbols, n - 1) IN
         shorter \cup
         { Append(d, [key |-> sym, val |-> q]) :
             d \in {x \in shorter : Len(x) = n - 1},
             sym \in symbols, q \in Quantities }

DistinctKeys(d) == \A i, j \in DOMAIN d : d[i].key = d[j].key => i = j

SymbolsOf(symbology) ==
    IF symbology = "NATIVE" THEN NativeSymbols ELSE {AssetSymbol(a) : a \in AssetIds}

\* mutant: positions are built from the size of the quantity, losing the
\* sign of a short position
RECURSIVE AssetPositions_Unsigned(_, _, _)
AssetPositions_Unsigned(maps, raw, symbology) ==
    IF raw = << >> THEN << >>
    ELSE LET n    == Len(raw)
             item == raw[n]
             qty  == IF item.val < 0 THEN 0 - item.val ELSE item.val
         IN  SetItem(AssetPositions_Unsigned(maps, SubSeq(raw, 1, n - 1), symbology),
                     get_asset_id_by_symbol(maps, item.key, symbology), qty)

\* AssetMaster.create_portfolio: the positions of the portfolio, keyed by
\* asset id: {get_asset_id_by_symbol(symbol, symbology): qty ...}
RECURSIVE AssetPositions(_, _, _)
AssetPositions(maps, raw, symbology) ==
    IF raw = << >> THEN << >>
    ELSE LET n    == Len(raw)
             item == raw[n]
         IN  SetItem(AssetPositions(maps, SubSeq(raw, 1, n - 1), symbology),
                     get_asset_id_by_symbol(maps, item.key, symbology), item.val)

\* Portfolio.to_asset_positions: [{'assetId': .., 'quantity': ..}, ...]
to_asset_positions(asset_positions) ==
    [i \in DOMAIN asset_positions |->
        [assetId |-> asset_positions[i].key, quantity |-> asset_positions[i].val]]

\* no reference data session
InitRefdataIdle ==
    /\ asset_summaries = << >>
    /\ asset_master = None
    /\ portfolio_raw = << >>
    /\ pf_symbology = "NATIVE"
    /\ portfolio = None
    /\ positions = None

\* a session against a service holding any catalog of up to MaxAssets summaries
InitRefdata ==
    /\ asset_summaries \in UNION { [1..n -> Summaries] : n \in 0..MaxAssets }
    /\ asset_master = None
    /\ portfolio_raw = << >>
    /\ pf_symbology = "NATIVE"
    /\ portfolio = None
    /\ positions = None

\* asset_master = api.refdata().load_asset_master()
LoadAssetMaster ==
    /\ asset_master = None
    /\ ~AssetMaster(asset_summaries).raised
    /\ asset_master' = Some(AssetMaster(asset_summaries).maps)
    /\ UNCHANGED pricingVars
    /\ UNCHANGED valuationVars
    /\ UNCHANGED widgetVars
    /\ UNCHANGED makeVars
    /\ UNCHANGED setupVars
    /\ UNCHANGED <<asset_summaries, portfolio_raw, pf_symbology, portfolio, positions>>

\* portfolio = asset_master.create_portfolio(portfolio_raw, symbology=..);
\* an unknown symbol raises and leaves no portfolio
CreatePortfolio ==
    /\ asset_master # None
    /\ portfolio = None
    /\ \E symbology \in Symbologies :
       \E raw \in RawPortfolios(SymbolsOf(symbology), MaxPositions) :
          /\ raw # << >>
          /\ DistinctKeys(raw)
          /\ \A i \in DOMAIN raw : KnowsSymbol(the(asset_master), raw[i].key, symbology)
          /\ portfolio_raw' = raw
          /\ pf_symbology' = symbology
          /\ portfolio' = Some(AssetPositions(the(asset_master), raw, symbology))
    /\ UNCHANGED pricingVars
    /\ UNCHANGED valuationVars
    /\ UNCHANGED widgetVars
    /\ UNCHANGED makeVars
    /\ UNCHANGED setupVars
    /\ UNCHANGED <<asset_summaries, asset_master, positions>>

\* positions = portfolio.to_asset_positions()
ToAssetPositions ==
    /\ portfolio # None
    /\ positions = None
    /\ positions' = Some(to_asset_positions(the(portfolio)))
    /\ UNCHANGED pricingVars
    /\ UNCHANGED valuationVars
    /\ UNCHANGED widgetVars
    /\ UNCHANGED makeVars
    /\ UNCHANGED setupVars
    /\ UNCHANGED <<asset_summaries, asset_master, portfolio_raw, pf_symbology, portfolio>>

NextRefdata ==
    \/ LoadAssetMaster
    \/ CreatePortfolio
    \/ ToAssetPositions

-----------------------------------------------------------------------------
(* Portfolio valuation: PricingContext and compute_portfolio_value *)

CashTreatments == {"FIAT_PEGGED_STABLECOINS", "FIAT_ONLY"}

\* the assets of the sample portfolios, and the quantities a portfolio may
\* hold of each: fiat, a USD-pegged stablecoin, and two tokens, one of
\* which may be short
ValuedAssets == <<"USD", "USDC", "BTC", "SOL">>

HoldingChoices ==
    [USD |-> {0, 5}, USDC |-> {0, 3}, BTC |-> {0, 1}, SOL |-> {0, 2, 0 - 2}]

AssetKind(asset) ==
    IF asset = "USD" THEN "fiat"
    ELSE IF asset = "USDC" THEN "stablecoin"
    ELSE "token"

\* prices in the base currency at the close T and at the previous close T-1
ClosePrice(asset) == IF asset = "BTC" THEN 3 ELSE IF asset = "SOL" THEN 2 ELSE 1

PreviousPrice(asset) == IF asset = "BTC" THEN 2 ELSE IF asset = "SOL" THEN 3 ELSE 1

\* the portfolios create_portfolio may give: the assets held, in the order
\* of ValuedAssets, with their quantities
RECURSIVE PortfoliosFrom(_)
PortfoliosFrom(k) ==
    IF k > Len(ValuedAssets) THEN {<< >>}
    ELSE LET asset == ValuedAssets[k] IN
         UNION { { IF q = 0 THEN rest ELSE <<[key |-> asset, val |-> q]>> \o rest :
                     rest \in PortfoliosFrom(k + 1) } :
                 q \in HoldingChoices[asset] }

ValuedPortfolios == PortfoliosFrom(1) \ {<< >>}

\* PricingContext(as_of_date=.., cash_treatment=.., base_currency_id=..)
PricingContext(as_of_date, cash_treatment, base_currency_id) ==
    [as_of_date |-> as_of_date, cash_treatment |-> cash_treatment,
     base_currency_id |-> base_currency_id]

\* mutant: stablecoins count as cash whatever the treatment
IsCash_StablecoinsAlways(cash_treatment, asset) ==
    AssetKind(asset) \in {"fiat", "stablecoin"}

\* the valuation service: which positions a cash treatment classifies as cash
IsCash(cash_treatment, asset) ==
    IF cash_treatment = "FIAT_PEGGED_STABLECOINS"
      THEN AssetKind(asset) \in {"fiat", "stablecoin"}
      ELSE AssetKind(asset) = "fiat"

Abs(x) == IF x < 0 THEN 0 - x ELSE x

PriceAt(mark, asset) ==
    IF mark = "close" THEN ClosePrice(asset) ELSE PreviousPrice(asset)

\* the sum of the numbers of a sequence
Sum(xs) ==
    LET S[i \in 0..Len(xs)] == IF i = 0 THEN 0 ELSE S[i - 1] + xs[i]
    IN  S[Len(xs)]

\* the valuation service: the value of the positions at one mark time
ValueAt(cash_treatment, asset_positions, mark) ==
    LET cash  == [i \in DOMAIN asset_positions |->
                    IF IsCash(cash_treatment, asset_positions[i].key)
                      THEN asset_positions[i].val ELSE 0]
        net   == [i \in DOMAIN asset_positions |->
                    IF IsCash(cash_treatment, asset_positions[i].key) THEN 0
                    ELSE asset_positions[i].val * PriceAt(mark, asset_positions[i].key)]
        gross == [i \in DOMAIN asset_positions |->
                    IF IsCash(cash_treatment, asset_positions[i].key) THEN 0
                    ELSE Abs(asset_positions[i].val) * PriceAt(mark, asset_positions[i].key)]
    IN  [net_holdings_value   |-> Sum(net),
         gross_holdings_value |-> Sum(gross),
         cash_position_value  |-> Sum(cash),
         net_asset_value      |-> Sum(net) + Sum(cash)]

\* the valuation service: the result of a portfolio valuation request
PortfolioValue(request) ==
    [close    |-> ValueAt(request.cash_treatment, request.positions, "close"),
     previous |-> ValueAt(request.cash_treatment, request.positions, "previous")]

\* mutant: the request of the first call is kept and sent again
PortfolioValueRequest_Memoized(context, asset_positions) ==
    IF last_request # None THEN the(last_request)
    ELSE [as_of_date |-> context.as_of_date, cash_treatment |-> context.cash_treatment,
          base_currency_id |-> context.base_currency_id,
          positions |-> asset_positions]

\* ValuationApi.compute_portfolio_value(ctx, portfolio): the request it sends
PortfolioValueRequest(context, asset_positions) ==
    [as_of_date |-> context.as_of_date, cash_treatment |-> context.cash_treatment,
     base_currency_id |-> context.base_currency_id,
     positions |-> asset_positions]

\* no valuation session
InitValuation ==
    /\ v_portfolio = None
    /\ ctx = None
    /\ heap = << >>
    /\ result = None
    /\ last_request = None
    /\ nportfolios = 0

\* portfolio = asset_master.create_portfolio(portfolio_raw, symbology='NATIVE')
CreateValuedPortfolio ==
    /\ nportfolios < MaxPortfolios
    /\ \E pf \in ValuedPortfolios : v_portfolio' = Some(pf)
    /\ nportfolios' = nportfolios + 1
    /\ UNCHANGED pricingVars
    /\ UNCHANGED refdataVars
    /\ UNCHANGED widgetVars
    /\ UNCHANGED makeVars
    /\ UNCHANGED setupVars
    /\ UNCHANGED <<ctx, heap, result, last_request>>

\* ctx = PricingContext(as_of_date=date(2021, 7, 1),
\*                      cash_treatment=CashTreatment.FIAT_PEGGED_STABLECOINS,
\*                      base_currency_id=usd_asset_id)
CreateContext ==
    /\ ctx = None
    /\ ctx' = Some(PricingContext("2021-07-01", "FIAT_PEGGED_STABLECOINS", "USD"))
    /\ UNCHANGED pricingVars
    /\ UNCHANGED refdataVars
    /\ UNCHANGED widgetVars
    /\ UNCHANGED makeVars
    /\ UNCHANGED setupVars
    /\ UNCHANGED <<v_portfolio, heap, result, last_request, nportfolios>>

\* ctx.cash_treatment = CashTreatment.FIAT_ONLY (or any other treatment)
SetCashTreatment ==
    /\ ctx # None
    /\ \E t \in CashTreatments :
          /\ t # the(ctx).cash_treatment
          /\ ctx' = Some([the(ctx) EXCEPT !.cash_treatment = t])
    /\ UNCHANGED pricingVars
    /\ UNCHANGED refdataVars
    /\ UNCHANGED widgetVars
    /\ UNCHANGED makeVars
    /\ UNCHANGED setupVars
    /\ UNCHANGED <<v_portfolio, heap, result, last_request, nportfolios>>

\* result = api.valuation().compute_portfolio_value(ctx, portfolio): the
\* request is sent, and the answer comes back as a new result object
ComputePortfolioValue ==
    /\ ctx # None
    /\ v_portfolio # None
    /\ Len(heap) < MaxValuations
    /\ LET request == PortfolioValueRequest(the(ctx), the(v_portfolio)) IN
          /\ last_request' = Some(request)
          /\ heap' = Append(heap, PortfolioValue(request))
          /\ result' = Some(Len(heap) + 1)
    /\ UNCHANGED pricingVars
    /\ UNCHANGED refdataVars
    /\ UNCHANGED widgetVars
    /\ UNCHANGED makeVars
    /\ UNCHANGED setupVars
    /\ UNCHANGED <<v_portfolio, ctx, nportfolios>>

NextValuation ==
    \/ CreateValuedPortfolio
    \/ CreateContext
    \/ SetCashTreatment
    \/ ComputePortfolioValue

-----------------------------------------------------------------------------
(* Connection: ConnectWidget and get_api *)

\* the API configurations the widget offers
ConfigIds == {"dev", "test", "prod"}

\* an API connected under a configuration
ConnectedApi(id) == [config |-> id]

\* mutant: the default configuration is only pre-selected, not connected
ConnectWidget_SelectsOnly(default_config_id, first_config) ==
    [selected |-> IF default_config_id = None THEN first_config
                                              ELSE the(default_config_id),
     api      |-> None]

\* ConnectWidget(default_config_id): the widget as it is once constructed;
\* with a default configuration it has connected under it, otherwise it
\* shows the first configuration and waits for the user
ConnectWidget(default_config_id, first_config) ==
    [selected |-> IF default_config_id = None THEN first_config
                                              ELSE the(default_config_id),
     api      |-> IF default_config_id = None THEN None
                  ELSE Some(ConnectedApi(the(default_config_id)))]

\* ConnectWidget.get_api(): the API of the widget, None while not connected
get_api(widget) == widget.api

\* the environment the notebook is started in
InitWidget ==
    /\ config_id \in {None} \cup {Some(c) : c \in ConfigIds}
    /\ connect_widget = None
    /\ api = None
    /\ api_calls = 0
    /\ clicks = 0

\* no connection cells run
InitWidgetIdle ==
    /\ config_id = None
    /\ connect_widget = None
    /\ api = None
    /\ api_calls = 0
    /\ clicks = 0

\* connect_widget = ConnectWidget(getenv('SERENITY_CONFIG_ID', None)); a
\* connection that fails raises and leaves no widget
ConstructWidget ==
    /\ connect_widget = None
    /\ \E first \in ConfigIds :
          connect_widget' = Some(ConnectWidget(config_id, first))
    /\ UNCHANGED pricingVars
    /\ UNCHANGED refdataVars
    /\ UNCHANGED valuationVars
    /\ UNCHANGED makeVars
    /\ UNCHANGED setupVars
    /\ UNCHANGED <<config_id, api, api_calls, clicks>>

\* the user picks a configuration in the widget's dropdown
UserSelect ==
    /\ connect_widget # None
    /\ \E c \in ConfigIds :
          /\ c # the(connect_widget).selected
          /\ connect_widget' = Some([the(connect_widget) EXCEPT !.selected = c])
    /\ UNCHANGED pricingVars
    /\ UNCHANGED refdataVars
    /\ UNCHANGED valuationVars
    /\ UNCHANGED makeVars
    /\ UNCHANGED setupVars
    /\ UNCHANGED <<config_id, api, api_calls, clicks>>

\* the user presses the connect button: the widget connects under the
\* selected configuration, or the attempt fails and the widget stays as it was
UserConnect ==
    /\ connect_widget # None
    /\ clicks < MaxClicks
    /\ clicks' = clicks + 1
    /\ \/ connect_widget' = Some([the(connect_widget) EXCEPT
                                    !.api = Some(ConnectedApi(the(connect_widget).selected))])
       \/ UNCHANGED connect_widget
    /\ UNCHANGED pricingVars
    /\ UNCHANGED refdataVars
    /\ UNCHANGED valuationVars
    /\ UNCHANGED makeVars
    /\ UNCHANGED setupVars
    /\ UNCHANGED <<config_id, api, api_calls>>

\* api = connect_widget.get_api()
GetApi ==
    /\ connect_widget # None
    /\ api_calls < MaxClicks + 1
    /\ api' = get_api(the(connect_widget))
    /\ api_calls' = api_calls + 1
    /\ UNCHANGED pricingVars
    /\ UNCHANGED refdataVars
    /\ UNCHANGED valuationVars
    /\ UNCHANGED makeVars
    /\ UNCHANGED setupVars
    /\ UNCHANGED <<config_id, connect_widget, clicks>>

NextWidget ==
    \/ ConstructWidget
    \/ UserSelect
    \/ UserConnect
    \/ GetApi

-----------------------------------------------------------------------------
(* The Makefile *)

\* the rules of the Makefile: each target with its prerequisites
MakeRules ==
    [venv    |-> << >>,
     lint    |-> << >>,
     test    |-> <<"venv">>,
     install |-> <<"venv", "lint", "test">>,
     clean   |-> << >>,
     help    |-> << >>]

\* ".PHONY = help setup test clean" assigns a variable named .PHONY; it
\* declares no prerequisites of the special target .PHONY, so no target is phony
PhonyTargets == {}

\* .DEFAULT_GOAL = help
DefaultGoal == "help"

\* the targets the help recipe tells the user to type
HelpTargets == {"setup", "test", "install"}

\* the directories recipes create and remove
Directories == {"venv", "build", "dist"}

\* what a user may type after make; "" is make with no goal
MakeGoals == DOMAIN MakeRules \cup HelpTargets \cup {""}

HasRule(target) == target \in DOMAIN MakeRules

\* the directories there are after the recipe of a target has run
RecipeEffect(target, dirs, succeeded) ==
    IF target = "venv" THEN dirs \cup {"venv"}
    ELSE IF target = "install" THEN (IF succeeded THEN dirs \cup {"build", "dist"}
                                                  ELSE dirs \cup {"build"})
    ELSE IF target = "clean" THEN dirs \ {"build", "dist", "venv"}
    ELSE dirs

\* make updating one target: its prerequisites first, then its recipe
\* unless the target is a file that exists and is not phony; a name with
\* no rule and no file stops make ("No rule to make target")
RECURSIVE UpdateTarget(_, _, _)
RECURSIVE UpdateAll(_, _, _)
UpdateTarget(target, st, ok) ==
    IF st.status # "ok" \/ target \in st.considered THEN st
    ELSE IF ~HasRule(target)
      THEN IF target \in st.dirs
             THEN [st EXCEPT !.considered = @ \cup {target}]
             ELSE [st EXCEPT !.status = "no_rule", !.failed = target]
      ELSE LET st1 == UpdateAll(MakeRules[target], st, ok) IN
           IF st1.status # "ok" THEN st1
           ELSE IF target \in st1.dirs /\ target \notin PhonyTargets
             THEN [st1 EXCEPT !.considered = @ \cup {target}]
           ELSE [st1 EXCEPT
                   !.considered = @ \cup {target},
                   !.ran    = Append(@, target),
                   !.dirs   = RecipeEffect(target, @, ok[target]),
                   !.status = IF ok[target] THEN "ok" ELSE "recipe_failed",
                   !.failed = IF ok[target] THEN @ ELSE target]

UpdateAll(targets, st, ok) ==
    IF targets = << >> THEN st
    ELSE UpdateAll(Tail(targets), UpdateTarget(Head(targets), st, ok), ok)

\* one invocation "make goal" in a working copy with the directories dirs,
\* ok telling which recipes succeed
MakeRun(goal, dirs, ok) ==
    LET target == IF goal = "" THEN DefaultGoal ELSE goal
        st == UpdateTarget(target,
                  [status |-> "ok", failed |-> "", ran |-> << >>, dirs |-> dirs,
                   considered |-> {}], ok)
    IN  [goal |-> goal, status |-> st.status, failed |-> st.failed,
         ran |-> st.ran, dirs |-> st.dirs]

\* the recipes of echo and rm always succeed; the others may fail
RecipeOutcomes ==
    { ok \in [DOMAIN MakeRules -> BOOLEAN] : ok["help"] /\ ok["clean"] }

\* a fresh working copy
InitMake ==
    /\ files = {}
    /\ last_make = None
    /\ nmake = 0

\* the user types make with a goal
Make ==
    /\ nmake < MaxMakeRuns
    /\ \E goal \in MakeGoals, ok \in RecipeOutcomes :
          LET run == MakeRun(goal, files, ok) IN
          /\ last_make' = Some([goal |-> run.goal, status |-> run.status,
                                failed |-> run.failed, ran |-> run.ran])
          /\ files' = run.dirs
    /\ nmake' = nmake + 1
    /\ UNCHANGED pricingVars
    /\ UNCHANGED refdataVars
    /\ UNCHANGED valuationVars
    /\ UNCHANGED widgetVars
    /\ UNCHANGED setupVars

NextMake ==
    \/ Make

-----------------------------------------------------------------------------
(* setup.sh *)

\* the commands of setup.sh, in the order of the script; it has no "set -e",
\* so a command that fails is followed by the next one
SetupCommands ==
    << "pip install poetry",
       "poetry config virtualenvs.in-project true",
       "poetry install",
       "poetry run pre-commit install" >>

\* --hook-type pre-commit --hook-type pre-push
HookTypes == {"pre-commit", "pre-push"}

SetupAt(command) ==
    sh_pc \in DOMAIN SetupCommands /\ SetupCommands[sh_pc] = command

SetupEnded == sh_pc = Len(SetupCommands) + 1

\* where poetry install puts the virtual environment: in the project's
\* .venv when virtualenvs.in-project is true, else in Poetry's cache
\* directory, where an environment made earlier is used again
VenvFor(setting, existing) ==
    IF setting THEN "project"
    ELSE IF existing # None THEN the(existing) ELSE "cache"

\* the machine before the script: Poetry installed or not, its setting,
\* possibly an environment left by an earlier run, and possibly the
\* pre-commit hook alone installed by an earlier "pre-commit install"
InitSetup ==
    /\ sh_pc = 1
    /\ exit_status = 0
    /\ poetry_available \in BOOLEAN
    /\ in_project \in BOOLEAN
    /\ venv_location \in {None, Some("cache"), Some("project")}
    /\ deps_installed \in BOOLEAN
    /\ venv_location = None => ~deps_installed
    /\ ~poetry_available => (venv_location = None /\ ~in_project)
    /\ hooks \in {{}, {"pre-commit"}}
    /\ in_project_at_install = None
    /\ deps_at_hooks = None

\* setup.sh not run
InitSetupIdle ==
    /\ sh_pc = 1
    /\ exit_status = 0
    /\ poetry_available = FALSE
    /\ in_project = FALSE
    /\ venv_location = None
    /\ deps_installed = FALSE
    /\ hooks = {}
    /\ in_project_at_install = None
    /\ deps_at_hooks = None

\* pip install poetry
PipInstallPoetry ==
    /\ SetupAt("pip install poetry")
    /\ \/ poetry_available' = TRUE /\ exit_status' = 0
       \/ UNCHANGED poetry_available /\ exit_status' = 1
    /\ sh_pc' = sh_pc + 1
    /\ UNCHANGED pricingVars
    /\ UNCHANGED refdataVars
    /\ UNCHANGED valuationVars
    /\ UNCHANGED widgetVars
    /\ UNCHANGED makeVars
    /\ UNCHANGED <<in_project, venv_location, deps_installed, hooks,
                   in_project_at_install, deps_at_hooks>>

\* poetry config "virtualenvs.in-project" true
PoetryConfig ==
    /\ SetupAt("poetry config virtualenvs.in-project true")
    /\ \/ poetry_available /\ in_project' = TRUE /\ exit_status' = 0
       \/ UNCHANGED in_project /\ exit_status' = 1
    /\ sh_pc' = sh_pc + 1
    /\ UNCHANGED pricingVars
    /\ UNCHANGED refdataVars
    /\ UNCHANGED valuationVars
    /\ UNCHANGED widgetVars
    /\ UNCHANGED makeVars
    /\ UNCHANGED <<poetry_available, venv_location, deps_installed, hooks,
                   in_project_at_install, deps_at_hooks>>

\* poetry install: creates the environment where the setting says and
\* installs the dependencies; it may fail before or after the environment
\* is made
PoetryInstall ==
    /\ SetupAt("poetry install")
    /\ \/ /\ poetry_available
          /\ venv_location' = Some(VenvFor(in_project, venv_location))
          /\ \/ deps_installed' = TRUE /\ exit_status' = 0
             \/ deps_installed' = (deps_installed /\ venv_location' = venv_location)
                /\ exit_status' = 1
          /\ in_project_at_install' = Some(in_project)
       \/ /\ exit_status' = 1
          /\ UNCHANGED <<venv_location, deps_installed, in_project_at_install>>
    /\ sh_pc' = sh_pc + 1
    /\ UNCHANGED pricingVars
    /\ UNCHANGED refdataVars
    /\ UNCHANGED valuationVars
    /\ UNCHANGED widgetVars
    /\ UNCHANGED makeVars
    /\ UNCHANGED <<poetry_available, in_project, hooks, deps_at_hooks>>

\* poetry run pre-commit install --hook-type pre-commit --hook-type pre-push:
\* needs poetry and an environment; pre-commit is found in the environment
\* once the dependencies are installed, or on the PATH
PreCommitInstall ==
    /\ SetupAt("poetry run pre-commit install")
    /\ \/ /\ poetry_available
          /\ venv_location # None
          /\ hooks' = hooks \cup HookTypes
          /\ deps_at_hooks' = Some(deps_installed)
          /\ exit_status' = 0
       \/ /\ exit_status' = 1
          /\ UNCHANGED <<hooks, deps_at_hooks>>
    /\ sh_pc' = sh_pc + 1
    /\ UNCHANGED pricingVars
    /\ UNCHANGED refdataVars
    /\ UNCHANGED valuationVars
    /\ UNCHANGED widgetVars
    /\ UNCHANGED makeVars
    /\ UNCHANGED <<poetry_available, in_project, venv_location, deps_installed,
                   in_project_at_install>>

NextSetup ==
    \/ PipInstallPoetry
    \/ PoetryConfig
    \/ PoetryInstall
    \/ PreCommitInstall

NextPricing ==
    \/ Tick
    \/ DefineDemoOptvals
    \/ RtLoopBegin
    \/ RtLoopCall
    \/ HistLoopBegin
    \/ HistLoopCall
    \/ HistLoopSleep
    \/ BuildDemo1
    \/ KeepBaseValues
    \/ BuildSpotBumps
    \/ BuildHelperSpotBumps
    \/ PlotSpotBumps
    \/ BuildReplacement
    \/ BuildExpiries
    \/ RunCell
    \/ RunCellAsOf
    \/ ServiceRespond
    \/ ReturnFromCall

vars == <<pricingVars, refdataVars, valuationVars, widgetVars, makeVars, setupVars>>

\* the option valuation session at rest
InitPricingIdle == InitPricing /\ market = <<[spot |-> 10, iv |-> 20]>>

\* a session of the option valuation notebooks
Init == InitPricing /\ InitRefdataIdle /\ InitValuation /\ InitWidgetIdle /\ InitMake /\ InitSetupIdle

Next == NextPricing

Spec == Init /\ [][Next]_vars

\* a session of the notebooks that load the asset master and build portfolios
InitR == InitPricingIdle /\ InitRefdata /\ InitValuation /\ InitWidgetIdle /\ InitMake /\ InitSetupIdle

NextR == NextRefdata

SpecRefdata == InitR /\ [][NextR]_vars

\* a session of the portfolio valuation notebook
InitV == InitPricingIdle /\ InitRefdataIdle /\ InitValuation /\ InitWidgetIdle /\ InitMake /\ InitSetupIdle

NextV == NextValuation

SpecValuation == InitV /\ [][NextV]_vars

\* the connection cells of a notebook
InitW == InitPricingIdle /\ InitRefdataIdle /\ InitValuation /\ InitWidget /\ InitMake /\ InitSetupIdle

NextW == NextWidget

SpecWidget == InitW /\ [][NextW]_vars

\* a maintainer using the Makefile
InitM == InitPricingIdle /\ InitRefdataIdle /\ InitValuation /\ InitWidgetIdle /\ InitMake /\ InitSetupIdle

NextM == NextMake

SpecMake == InitM /\ [][NextM]_vars

\* a maintainer running setup.sh
InitS == InitPricingIdle /\ InitRefdataIdle /\ InitValuation /\ InitWidgetIdle /\ InitMake /\ InitSetup

NextS == NextSetup

SpecSetup == InitS /\ [][NextS]_vars

-----------------------------------------------------------------------------
(* Properties of the option valuation workflow *)

\* the valuation figures of a result, without the id it is reported under
Figures(r) == <<r.pv, r.spot_price, r.iv>>

LastOk == last # None /\ ~the(last).raised

\* C1: historical mode is deterministic: the runs that the historical loop
\* collects for one dictionary and one as_of_time, made at different
\* wall-clock times, are exactly the same
C1_HistoricalDeterministic ==
    as_of_time # None =>
        \A i, j \in DOMAIN a_res : a_res[i].val = a_res[j].val

\* two runs were collected, and at every instant after as_of_time (the
\* second run was made at such an instant) the market differs from the
\* market as of as_of_time
C1_Witness ==
    /\ as_of_time # None
    /\ Len(a_res) = num_calls
    /\ now > the(as_of_time)
    /\ \A t \in (the(as_of_time) + 1)..now : market[t + 1] # market[the(as_of_time) + 1]

\* C2: run_compute_option_valuations sends exactly the values of the
\* dictionary in a single request, and the table it returns has exactly one
\* column per key, the column of key k holding the result whose
\* option_valuation_id is that of the_optvals[k], in whatever order the
\* service returned the results
C2_TableByKey ==
    last # None =>
        LET c == the(last) IN
        /\ Len(c.requests) = 1
        /\ c.requests[1].options = values(c.the_optvals)
        /\ c.response.status = "ok" =>
              /\ ~c.raised
              /\ keys(the(c.table)) = keys(c.the_optvals)
              /\ \A i \in DOMAIN c.the_optvals :
                    /\ the(c.table)[i].val.option_valuation_id
                          = c.the_optvals[i].val.option_valuation_id
                    /\ \E n \in DOMAIN c.response.body :
                          c.response.body[n] = the(c.table)[i].val

\* a table came back for a dictionary of several valuations whose results
\* the service returned in another order than they were sent
C2_Witness ==
    /\ LastOk
    /\ Len(the(last).the_optvals) >= 2
    /\ the(last).response.body[1].option_valuation_id
          # the(last).the_optvals[1].val.option_valuation_id

\* C5: calls are synchronous: at most one request is in flight at any time,
\* and no request or unread response is outstanding once the call has
\* returned, so the calls of a loop give request/response pairs strictly
\* one after the other
C5_Synchronous ==
    /\ Len(inflight) <= 1
    /\ nreq - nresp = Len(inflight)
    /\ call = None => inflight = << >> /\ response = None

\* the loop has made its num_calls calls: as many requests and responses
C5_Witness ==
    /\ Len(a_res) = num_calls
    /\ loop = None
    /\ nreq = num_calls
    /\ nresp = num_calls

\* C6: no caching, no retries: every invocation has issued exactly one
\* HTTP request, also after a failed request and for a call with the
\* arguments of an earlier call
C6_OneRequestPerCall ==
    /\ nreq = ncalls
    /\ last # None => Len(the(last).requests) = 1

\* two identical historical calls were made and a later call failed
C6_Witness ==
    /\ Len(a_res) = num_calls
    /\ call = None
    /\ last # None
    /\ the(last).raised
    /\ as_of_time # None
    /\ ncalls > num_calls

\* C7: when the service answers with an HTTP error status or the body does
\* not deserialize, the call raises and hands back no result
C7_ErrorSurfaces ==
    last # None =>
        (the(last).response.status # "ok" =>
            the(last).raised /\ the(last).table = None)

\* a call for a dictionary of several valuations failed
C7_Witness ==
    /\ last # None
    /\ the(last).response.status = "http_error"
    /\ Len(the(last).the_optvals) >= 2

\* C8: the pre-defined option and its replica, valued in one request, get
\* identical valuation figures
C8_ReplicaIdentical ==
    (/\ LastOk
     /\ HasKey(the(last).the_optvals, "predefined")
     /\ HasKey(the(last).the_optvals, "predefined_replica"))
    => Figures(Get(the(the(last).table), "predefined"))
          = Figures(Get(the(the(last).table), "predefined_replica"))

\* both were valued, for the option whose contract size is not 1, with a
\* non-zero present value
C8_Witness ==
    /\ LastOk
    /\ HasKey(the(last).the_optvals, "predefined_replica")
    /\ the(the_replica_optval).contract_size = Some(2)
    /\ Get(the(the(last).table), "predefined_replica").pv > 0

\* C9: with spot_is_bump=False and vol_is_bump=False the result reports
\* spot_price = spot_override and iv = vol_override
C9_ReplacementReported ==
    (LastOk /\ HasKey(the(last).the_optvals, "replacement"))
    => /\ Get(the(the(last).table), "replacement").spot_price = the(spot_replacement)
       /\ Get(the(the(last).table), "replacement").iv = the(vol_replacement)

\* the replacement was valued next to the base, whose figures differ
C9_Witness ==
    /\ LastOk
    /\ HasKey(the(last).the_optvals, "replacement")
    /\ Get(the(the(last).table), "base").spot_price # the(spot_replacement)
    /\ Get(the(the(last).table), "base").iv # the(vol_replacement)

\* C10: in every dictionary built, and in every request sent, the
\* option_valuation_id values are pairwise distinct
DistinctIds(d) ==
    \A i, j \in DOMAIN d :
        d[i].val.option_valuation_id = d[j].val.option_valuation_id => i = j

C10_UniqueIds ==
    /\ DistinctIds(optvals)
    /\ call # None => DistinctIds(the(call).the_optvals)

\* a dictionary of a base valuation and its bumped copies is being sent
C10_Witness ==
    /\ call # None
    /\ HasKey(the(call).the_optvals, "base")
    /\ Len(the(call).the_optvals) = NumBumps + 1
    /\ inflight # << >>

\* C11: in real-time mode each call is valued as of the time of the call:
\* every run the real-time loop collected under its now_ts is the valuation
\* off the market at an instant between now_ts and the present, and two
\* runs made at different times differ
C11_RealTimeChanges ==
    as_of_time = None =>
        /\ \A i \in DOMAIN a_res :
              \E t \in a_res[i].key .. now :
                 a_res[i].val = ValuationResult(optvals[1].val, market[t + 1], t)
        /\ \A i, j \in DOMAIN a_res :
              a_res[i].key # a_res[j].key => a_res[i].val # a_res[j].val

\* the real-time loop has collected num_calls runs, the market being the
\* same at the start of the first and of the last
C11_Witness ==
    /\ as_of_time = None
    /\ loop = None
    /\ Len(a_res) = num_calls
    /\ market[a_res[1].key + 1] = market[a_res[num_calls].key + 1]

-----------------------------------------------------------------------------
(* Properties of the asset master and of portfolio construction *)

\* C3: within one symbology the symbol-to-id mapping is bidirectional:
\* id -> symbol undoes symbol -> id for every known symbol, symbol -> id
\* undoes id -> symbol for every id that has a symbol, and no two symbols
\* map to the same id
C3_Bidirectional ==
    asset_master # None =>
        LET maps == the(asset_master) IN
        \A y \in Symbologies :
            /\ \A s \in SymbolsOf(y) :
                  KnowsSymbol(maps, s, y) =>
                     get_symbol_by_id(maps, get_asset_id_by_symbol(maps, s, y), y) = s
            /\ \A a \in AssetIds :
                  KnowsId(maps, a, y) =>
                     get_asset_id_by_symbol(maps, get_symbol_by_id(maps, a, y), y) = a
            /\ \A s1, s2 \in SymbolsOf(y) :
                  (/\ KnowsSymbol(maps, s1, y)
                   /\ KnowsSymbol(maps, s2, y)
                   /\ get_asset_id_by_symbol(maps, s1, y)
                         = get_asset_id_by_symbol(maps, s2, y))
                  => s1 = s2

\* a master loaded from a catalog in which two assets carry the same
\* native symbol, with two native symbols known
C3_Witness ==
    /\ asset_master # None
    /\ Len(asset_summaries) = 3
    /\ Len(the(asset_master)["NATIVE"]) = 2
    /\ Len(the(asset_master)["SERENITY"]) = 3

\* C4: create_portfolio gives exactly one position per symbol of
\* portfolio_raw, under the asset id the symbology maps the symbol to and
\* with the symbol's quantity, sign included; to_asset_positions() lists
\* exactly these positions
C4_PortfolioPositions ==
    portfolio # None =>
        LET maps == the(asset_master)
            pf   == the(portfolio) IN
        /\ Len(pf) = Len(portfolio_raw)
        /\ DistinctKeys(pf)
        /\ \A i \in DOMAIN portfolio_raw :
              LET id == get_asset_id_by_symbol(maps, portfolio_raw[i].key, pf_symbology) IN
              HasKey(pf, id) /\ Get(pf, id) = portfolio_raw[i].val
        /\ positions # None =>
              /\ Len(the(positions)) = Len(pf)
              /\ \A i \in DOMAIN pf :
                    /\ the(positions)[i].assetId = pf[i].key
                    /\ the(positions)[i].quantity = pf[i].val

\* a long/short portfolio of two symbols was built and listed
C4_Witness ==
    /\ positions # None
    /\ Len(portfolio_raw) = 2
    /\ \E i, j \in DOMAIN the(positions) :
          the(positions)[i].quantity < 0 /\ the(positions)[j].quantity > 0

-----------------------------------------------------------------------------
(* Properties of portfolio valuation *)

\* the quantity a list of positions holds of an asset, 0 when it holds none
HeldQty(asset_positions, asset) ==
    IF HasKey(asset_positions, asset) THEN Get(asset_positions, asset) ELSE 0

\* C12: the cash position of a valued portfolio counts exactly the
\* positions the context's cash treatment classifies as cash: USD and the
\* USD-pegged stablecoin under FIAT_PEGGED_STABLECOINS, USD only under
\* FIAT_ONLY; a portfolio of tokens only has cash_position_value 0 under
\* either treatment
C12_CashPosition ==
    result # None =>
        LET request == the(last_request)
            close   == heap[the(result)].close
            usd     == HeldQty(request.positions, "USD")
            usdc    == HeldQty(request.positions, "USDC")
        IN  /\ request.cash_treatment = "FIAT_PEGGED_STABLECOINS"
                  => close.cash_position_value = usd + usdc
            /\ request.cash_treatment = "FIAT_ONLY"
                  => close.cash_position_value = usd
            /\ (\A i \in DOMAIN request.positions :
                    request.positions[i].key \in {"BTC", "SOL"})
                  => close.cash_position_value = 0

\* a portfolio holding USD, the stablecoin and a short token position was
\* valued under FIAT_ONLY
C12_Witness ==
    /\ result # None
    /\ the(last_request).cash_treatment = "FIAT_ONLY"
    /\ HeldQty(the(last_request).positions, "USD") > 0
    /\ HeldQty(the(last_request).positions, "USDC") > 0
    /\ HeldQty(the(last_request).positions, "SOL") < 0

\* C16: compute_portfolio_value builds its request from the field values
\* the context has at the moment of the call, so a call after a
\* reassignment of ctx.cash_treatment is valued under the new treatment;
\* and no step, a reassignment or a later call, changes a result object
\* returned earlier
C16_ContextAtCall ==
    [][/\ \A i \in DOMAIN heap : heap'[i] = heap[i]
       /\ Len(heap') > Len(heap) =>
             /\ the(last_request').cash_treatment = the(ctx).cash_treatment
             /\ the(last_request').positions = the(v_portfolio)
             /\ heap'[Len(heap')] = PortfolioValue(the(last_request'))]_vars

\* one portfolio was valued under FIAT_PEGGED_STABLECOINS and, after the
\* reassignment, under FIAT_ONLY, with another cash position
C16_Witness ==
    /\ nportfolios = 1
    /\ Len(heap) = 2
    /\ the(ctx).cash_treatment = "FIAT_ONLY"
    /\ the(last_request).cash_treatment = "FIAT_ONLY"
    /\ heap[1].close.cash_position_value # heap[2].close.cash_position_value

-----------------------------------------------------------------------------
(* Properties of the connection cells *)

-----------------------------------------------------------------------------
(* Properties of the Makefile *)

\* C14: every target the help text tells the user to type (setup, test,
\* install) is a target of the Makefile: make with such a goal never stops
\* for want of a rule
C14_HelpTargetsDefined ==
    (last_make # None /\ the(last_make).goal \in HelpTargets)
        => ~(the(last_make).status = "no_rule"
             /\ the(last_make).failed = the(last_make).goal)

-----------------------------------------------------------------------------
(* Properties of setup.sh *)

\* C15: after setup.sh has run to its end, the pre-commit and the pre-push
\* hooks are installed and the virtual environment is in the project's
\* .venv; virtualenvs.in-project was true when poetry install ran, and the
\* hooks were installed with the dependencies installed
C15_SetupCompletes ==
    /\ SetupEnded =>
          /\ HookTypes \subseteq hooks
          /\ venv_location = Some("project")
    /\ in_project_at_install # None => the(in_project_at_install)
    /\ deps_at_hooks # None => the(deps_at_hooks)

\* what holds of every run: the commands run in the order of the script,
\* and a run in which every command succeeded ends with both hooks
\* installed, the dependencies installed and the environment in .venv
C15_WhenAllSucceed ==
    /\ (HookTypes \subseteq hooks \/ deps_at_hooks # None) => SetupEnded
    /\ in_project_at_install # None => sh_pc > 3
    /\ (SetupEnded /\ in_project /\ deps_installed
           /\ in_project_at_install = Some(TRUE) /\ deps_at_hooks = Some(TRUE))
          => (HookTypes \subseteq hooks /\ venv_location = Some("project"))

-----------------------------------------------------------------------------
(* Properties of the spot bump plot *)

\* the column of the table under the name the spot bump cell gave to the
\* valuation of the k-th bump
BumpColumn(table, bumps, k) == Get(table, "spot_bump_" \o bumps[k].key \o "%")

\* C17: whenever the plot cell draws the line, it has one point for every
\* column of the result table other than base; the k-th point is the k-th
\* bump size of the bump dictionary against the pv of the column of the
\* valuation bumped by that size minus the pv of the base column, and the
\* base column is none of the bumped columns
C17_PlottedPnl ==
    [][plotted' # plotted =>
         LET table == the(res_table)
             bumps == spot_bumps(the(spot_base))
             line  == the(plotted')
         IN  /\ Len(line) = Len(bumps)
             /\ Cardinality({c \in DOMAIN table : table[c].key # "base"}) = Len(line)
             /\ \A k \in DOMAIN line :
                   /\ line[k].x = bumps[k].val
                   /\ line[k].y = BumpColumn(table, bumps, k).pv
                                    - Get(table, "base").pv
                   /\ BumpColumn(table, bumps, k).option_valuation_id
                        # Get(table, "base").option_valuation_id
                   /\ Get(optvals, "spot_bump_" \o bumps[k].key \o "%").spot_price_override
                        = Some(MarketDataOverride(Some(bumps[k].val), None))
    ]_vars

\* the line was drawn from a table of the base and NumBumps bumped
\* valuations, and a bump moved the pv
C17_Witness ==
    /\ plotted # None
    /\ Len(the(plotted)) = NumBumps
    /\ \E k \in DOMAIN the(plotted) : the(plotted)[k].y # 0 /\ the(plotted)[k].x # 0
    /\ \E k \in DOMAIN the(plotted) : the(plotted)[k].y = 0 /\ the(plotted)[k].x = 0
    /\ Get(the(res_table), "base").pv # 0

====
